---- MODULE Spec2Model ----
(***************************************************************************)
(* Background job scheduler: the Job and JobExecution entities, the job    *)
(* domain service and the scheduler loop.                                  *)
(*                                                                         *)
(* Time is counted in units of the scheduler's polling interval            *)
(* (scheduler_interval seconds); a datetime is a natural number of such    *)
(* units and None is Null.                                                 *)
(***************************************************************************)
EXTENDS Integers, Sequences, FiniteSets, TLC

VARIABLES
    clock,        \* datetime.utcnow()
    job,          \* one Job entity
    execution,    \* one JobExecution entity
    jobs,         \* rows of the jobs table, by id
    executions,   \* rows of the job_executions table, in insertion order
    pc,           \* where JobSchedulerApp.start's loop stands: "tick" or "sleep"
    handoff,      \* per job id, when _scheduler_tick last called mark_as_executed (history)
    db,           \* one DatabaseConnection
    call,         \* the operation that ran last, with its effective arguments
    result        \* what that operation returned

vars == <<clock, job, execution, jobs, executions, pc, handoff, db, call, result>>

----------------------------------------------------------------------------
(* Bounds of the model *)

MaxTime == 5

MaxRetryCount == 3

MaxRetriesArg == 2

NumJobs == 2

MaxExecutions == 3

MaxBackoffCount == 10

----------------------------------------------------------------------------
(* Values *)

Null == -1

Times == 0..MaxTime

ACTIVE == "active"

INACTIVE == "inactive"

PAUSED == "paused"

DELETED == "deleted"

JobStatus == {ACTIVE, INACTIVE, PAUSED, DELETED}

scheduler_interval == 30

(* The cron expressions of the model: every minute and every second minute. *)
EveryMinute == "* * * * *"

EveryOtherMinute == "*/2 * * * *"

ValidCron == {EveryMinute, EveryOtherMinute}

(* An expression croniter rejects. *)
InvalidCron == "invalid cron"

(* uuid4(): a UUID, named after the object it is drawn for. *)
uuid4(owner) == <<"uuid", owner>>

(* A dict object: its identity and its items.  Two fields that hold the dict
   of one identity hold the same object. *)
dict(identity) == [id |-> identity, items |-> <<>>]

(* dict.copy(): a new object with the same items. *)
dict_copy(d, identity) == [id |-> identity, items |-> d.items]

(* Optional[...] arguments and results: None, or the value. *)
None == <<>>

Some(v) == <<v>>

(* DatabaseConnection(settings): no pool yet, and not initialized. *)
DatabaseConnection == [pool |-> None, is_initialized |-> FALSE]

(* The distance between two triggers of a cron expression, in time units. *)
CronPeriod(cron_expression) ==
    IF cron_expression = EveryMinute
    THEN 60 \div scheduler_interval
    ELSE 120 \div scheduler_interval

IsTrigger(cron_expression, t) == t % CronPeriod(cron_expression) = 0

(* A mutant of croniter_get_next: the base time itself counts when it matches. *)
croniter_get_next_inclusive(cron_expression, base_time) ==
    CHOOSE t \in base_time..(base_time + CronPeriod(cron_expression)) :
        /\ IsTrigger(cron_expression, t)
        /\ \A u \in base_time..(t - 1) : ~IsTrigger(cron_expression, u)

(* croniter(expr, base).get_next(datetime): the first trigger after base. *)
croniter_get_next(cron_expression, base_time) ==
    CHOOSE t \in (base_time + 1)..(base_time + CronPeriod(cron_expression)) :
        /\ IsTrigger(cron_expression, t)
        /\ \A u \in (base_time + 1)..(t - 1) : ~IsTrigger(cron_expression, u)

----------------------------------------------------------------------------
(* Job entity *)

(* validate_cron_expression: TRUE when croniter accepts the expression, FALSE
   when it raises ValueError. *)
(* A mutant of validate_cron_expression: every expression is accepted. *)
validate_cron_expression_accepts_all(j) == TRUE

validate_cron_expression(j) == j.cron_expression \in ValidCron

calculate_next_run(j, base_time) ==
    [j EXCEPT !.next_run = croniter_get_next(j.cron_expression, base_time)]

(* __post_init__ for a valid cron expression: a missing next_run is computed,
   whatever the status. *)
post_init(j, now) ==
    IF j.next_run = Null THEN calculate_next_run(j, now) ELSE j

(* Job(name, cron_expression, command, status=..., max_retries=...) at time now. *)
Job(id, status, cron_expression, max_retries, now) ==
    post_init([id |-> id,
               name |-> "job",
               cron_expression |-> cron_expression,
               command |-> "cmd",
               description |-> "",
               status |-> status,
               created_at |-> now,
               updated_at |-> now,
               last_run |-> Null,
               next_run |-> Null,
               timeout_seconds |-> 300,
               max_retries |-> max_retries,
               retry_delay_seconds |-> 60,
               environment_variables |-> dict(<<"Job", id>>),
               tags |-> <<>>,
               uuid |-> uuid4(<<"Job", id>>)], now)

(* A mutant of is_due: the status test dropped. *)
is_due_any_status(j, current_time) ==
    /\ j.next_run # Null
    /\ j.next_run <= current_time

is_due(j, current_time) ==
    /\ j.status = ACTIVE
    /\ j.next_run # Null
    /\ j.next_run <= current_time

(* A mutant of mark_as_executed: last_run is not recorded. *)
mark_as_executed_keeps_last_run(j, execution_time) ==
    calculate_next_run([j EXCEPT !.updated_at = execution_time], execution_time)

mark_as_executed(j, execution_time) ==
    calculate_next_run(
        [j EXCEPT !.last_run = execution_time, !.updated_at = execution_time],
        execution_time)

(* A mutant of pause: next_run is cleared as deactivate does. *)
pause_clears_next_run(j, now) ==
    IF j.status = ACTIVE
    THEN [j EXCEPT !.status = PAUSED, !.updated_at = now, !.next_run = Null]
    ELSE j

pause(j, now) ==
    IF j.status = ACTIVE
    THEN [j EXCEPT !.status = PAUSED, !.updated_at = now]
    ELSE j

(* A mutant of resume: the next_run of before the pause is kept. *)
resume_keeps_next_run(j, now) ==
    IF j.status = PAUSED
    THEN [j EXCEPT !.status = ACTIVE, !.updated_at = now]
    ELSE j

resume(j, now) ==
    IF j.status = PAUSED
    THEN calculate_next_run([j EXCEPT !.status = ACTIVE, !.updated_at = now], now)
    ELSE j

deactivate(j, now) ==
    [j EXCEPT !.status = INACTIVE, !.updated_at = now, !.next_run = Null]

(* A mutant of activate: a deleted job is activated too. *)
activate_from_deleted(j, now) ==
    IF j.status \in {INACTIVE, PAUSED, DELETED}
    THEN calculate_next_run([j EXCEPT !.status = ACTIVE, !.updated_at = now], now)
    ELSE j

activate(j, now) ==
    IF j.status \in {INACTIVE, PAUSED}
    THEN calculate_next_run([j EXCEPT !.status = ACTIVE, !.updated_at = now], now)
    ELSE j

(* A mutant of soft_delete: the name of a deleted job is given up. *)
soft_delete_gives_up_name(j, now) ==
    [j EXCEPT !.status = DELETED, !.updated_at = now, !.next_run = Null,
              !.name = "deleted"]

soft_delete(j, now) ==
    [j EXCEPT !.status = DELETED, !.updated_at = now, !.next_run = Null]

Range(s) == {s[i] : i \in DOMAIN s}

(* list.remove(x): the list without the first x. *)
list_remove(s, x) ==
    LET i == CHOOSE k \in DOMAIN s : s[k] = x /\ \A m \in 1..(k - 1) : s[m] # x
    IN SubSeq(s, 1, i - 1) \o SubSeq(s, i + 1, Len(s))

(* A mutant of add_tag: the tag is appended whether the list has it or not. *)
add_tag_always_appends(j, tag, now) ==
    [j EXCEPT !.tags = Append(@, tag), !.updated_at = now]

add_tag(j, tag, now) ==
    IF tag \notin Range(j.tags)
    THEN [j EXCEPT !.tags = Append(@, tag), !.updated_at = now]
    ELSE j

remove_tag(j, tag, now) ==
    IF tag \in Range(j.tags)
    THEN [j EXCEPT !.tags = list_remove(@, tag), !.updated_at = now]
    ELSE j

(* d[key] = value and del d[key] on the items of a dict. *)
dict_set(items, key, value) ==
    [k \in DOMAIN items \cup {key} |-> IF k = key THEN value ELSE items[k]]

dict_del(items, key) == [k \in DOMAIN items \ {key} |-> items[k]]

set_environment_variable(j, key, value, now) ==
    [j EXCEPT !.environment_variables.items = dict_set(@, key, value),
              !.updated_at = now]

remove_environment_variable(j, key, now) ==
    IF key \in DOMAIN j.environment_variables.items
    THEN [j EXCEPT !.environment_variables.items = dict_del(@, key),
                   !.updated_at = now]
    ELSE j

----------------------------------------------------------------------------
(* JobExecution entity *)

PENDING == "pending"

RUNNING == "running"

SUCCESS == "success"

FAILED == "failed"

TIMEOUT == "timeout"

CANCELLED == "cancelled"

RETRYING == "retrying"

ExecutionStatus == {PENDING, RUNNING, SUCCESS, FAILED, TIMEOUT, CANCELLED, RETRYING}

JobExecution(job_id, job_uuid, scheduled_time) ==
    [job_id |-> job_id,
     job_uuid |-> job_uuid,
     environment_variables |-> dict(<<"JobExecution", job_id, scheduled_time>>),
     status |-> PENDING,
     scheduled_time |-> scheduled_time,
     started_at |-> Null,
     finished_at |-> Null,
     exit_code |-> Null,
     stdout |-> "",
     stderr |-> "",
     error_message |-> "",
     retry_count |-> 0,
     execution_metadata |-> dict(<<"execution_metadata", job_id, scheduled_time>>)]

is_completed(e) == e.status \in {SUCCESS, FAILED, TIMEOUT, CANCELLED}

can_retry(e) == e.status \in {FAILED, TIMEOUT}

(* A mutant of start: a new attempt starts the count of retries again. *)
start_resets_retry_count(e, start_time) ==
    [e EXCEPT !.status = RUNNING, !.started_at = start_time, !.retry_count = 0]

start(e, start_time) ==
    [e EXCEPT !.status = RUNNING, !.started_at = start_time]

complete_success(e, exit_code, stdout, finish_time) ==
    [e EXCEPT !.status = SUCCESS,
              !.finished_at = finish_time,
              !.exit_code = exit_code,
              !.stdout = stdout]

complete_failure(e, exit_code, stderr, error_message, finish_time) ==
    [e EXCEPT !.status = FAILED,
              !.finished_at = finish_time,
              !.exit_code = exit_code,
              !.stderr = stderr,
              !.error_message = error_message]

timeout(e, error_message, finish_time) ==
    [e EXCEPT !.status = TIMEOUT,
              !.finished_at = finish_time,
              !.error_message = error_message]

cancel(e, error_message, finish_time) ==
    [e EXCEPT !.status = CANCELLED,
              !.finished_at = finish_time,
              !.error_message = error_message]

set_metadata(e, key, value) ==
    [e EXCEPT !.execution_metadata.items = dict_set(@, key, value)]

(* A mutant of prepare_retry: the exit code of the failed attempt is kept. *)
prepare_retry_keeps_exit_code(e) ==
    IF can_retry(e)
    THEN [e EXCEPT !.status = RETRYING,
                   !.retry_count = @ + 1,
                   !.started_at = Null,
                   !.finished_at = Null]
    ELSE e

prepare_retry(e) ==
    IF can_retry(e)
    THEN [e EXCEPT !.status = RETRYING,
                   !.retry_count = @ + 1,
                   !.started_at = Null,
                   !.finished_at = Null,
                   !.exit_code = Null]
    ELSE e

----------------------------------------------------------------------------
(* JobDomainService *)

(* A mutant of should_retry_execution: one retry too many. *)
should_retry_execution_off_by_one(e, j) ==
    IF e.retry_count > j.max_retries THEN FALSE
    ELSE IF ~can_retry(e) THEN FALSE
    ELSE IF j.status # ACTIVE THEN FALSE
    ELSE TRUE

(* A mutant of should_retry_execution: the retry limit not looked at. *)
should_retry_execution_ignores_count(e, j) ==
    IF ~can_retry(e) THEN FALSE
    ELSE IF j.status # ACTIVE THEN FALSE
    ELSE TRUE

should_retry_execution(e, j) ==
    IF e.retry_count >= j.max_retries THEN FALSE
    ELSE IF ~can_retry(e) THEN FALSE
    ELSE IF j.status # ACTIVE THEN FALSE
    ELSE TRUE

max_delay == 3600

Min(a, b) == IF a <= b THEN a ELSE b

(* Mutants of calculate_retry_time: the one-hour cap dropped; the delay not
   doubled from one retry to the next. *)
calculate_retry_time_uncapped(e, j, base_time) ==
    base_time + j.retry_delay_seconds * (2 ^ e.retry_count)

calculate_retry_time_constant(e, j, base_time) ==
    base_time + Min(j.retry_delay_seconds, max_delay)

(* A mutant of calculate_retry_time: the delay tripled, not doubled. *)
calculate_retry_time_tripled(e, j, base_time) ==
    base_time + Min(j.retry_delay_seconds * (3 ^ e.retry_count), max_delay)

(* calculate_retry_time, with base_time and the returned time in seconds. *)
calculate_retry_time(e, j, base_time) ==
    base_time + Min(j.retry_delay_seconds * (2 ^ e.retry_count), max_delay)

NoError == ""

NotFound == "Job with ID not found"

DuplicateName == "Job with name already exists"

InvalidCronExpression == "Invalid cron expression"

TimeoutNotPositive == "Timeout must be positive"

MaxRetriesNegative == "Max retries cannot be negative"

RetryDelayNegative == "Retry delay cannot be negative"

Assign(j, field, optional) ==
    IF optional = None THEN j ELSE [j EXCEPT ![field] = optional[1]]

(* A mutant of update_job's assignments: a new cron expression is validated
   and assigned, and next_run is left as it was. *)
update_job_fields_keeps_next_run(j, args, now) ==
    LET j1 == Assign(j, "cron_expression", args.cron_expression)
    IN IF args.cron_expression # None /\ ~validate_cron_expression(j1)
       THEN [job |-> j1, error |-> InvalidCronExpression]
       ELSE
       LET j4 == Assign(Assign(j1, "command", args.command),
                        "description", args.description)
       IN IF args.timeout_seconds # None /\ args.timeout_seconds[1] <= 0
          THEN [job |-> j4, error |-> TimeoutNotPositive]
          ELSE
          LET j5 == Assign(j4, "timeout_seconds", args.timeout_seconds)
          IN IF args.max_retries # None /\ args.max_retries[1] < 0
             THEN [job |-> j5, error |-> MaxRetriesNegative]
             ELSE
             LET j6 == Assign(j5, "max_retries", args.max_retries)
             IN IF args.retry_delay_seconds # None /\ args.retry_delay_seconds[1] < 0
                THEN [job |-> j6, error |-> RetryDelayNegative]
                ELSE [job |-> [Assign(j6, "retry_delay_seconds", args.retry_delay_seconds)
                                  EXCEPT !.updated_at = now],
                      error |-> NoError]

(* update_job from "Update fields if provided" to the assignment of
   updated_at: the fields are assigned one after the other, and a failed
   validation raises with the entity as it is by then.  The result is the
   entity and the error raised (NoError when none). *)
update_job_fields(j, args, now) ==
    LET j1 == Assign(j, "cron_expression", args.cron_expression)
    IN IF args.cron_expression # None /\ ~validate_cron_expression(j1)
       THEN [job |-> j1, error |-> InvalidCronExpression]
       ELSE
       LET j2 == IF args.cron_expression # None THEN calculate_next_run(j1, now) ELSE j1
           j3 == Assign(j2, "command", args.command)
           j4 == Assign(j3, "description", args.description)
       IN IF args.timeout_seconds # None /\ args.timeout_seconds[1] <= 0
          THEN [job |-> j4, error |-> TimeoutNotPositive]
          ELSE
          LET j5 == Assign(j4, "timeout_seconds", args.timeout_seconds)
          IN IF args.max_retries # None /\ args.max_retries[1] < 0
             THEN [job |-> j5, error |-> MaxRetriesNegative]
             ELSE
             LET j6 == Assign(j5, "max_retries", args.max_retries)
             IN IF args.retry_delay_seconds # None /\ args.retry_delay_seconds[1] < 0
                THEN [job |-> j6, error |-> RetryDelayNegative]
                ELSE [job |-> [Assign(j6, "retry_delay_seconds", args.retry_delay_seconds)
                                  EXCEPT !.updated_at = now],
                      error |-> NoError]

(* A mutant of _is_job_eligible_for_execution: the is_due test dropped. *)
is_job_eligible_for_execution_status_only(j, current_time) ==
    IF j.status # ACTIVE THEN FALSE
    ELSE TRUE

is_job_eligible_for_execution(j, current_time) ==
    IF j.status # ACTIVE THEN FALSE
    ELSE IF ~is_due(j, current_time) THEN FALSE
    ELSE TRUE

(* A mutant of create_job_execution: the job's dict itself is handed to the
   execution, not a copy of it. *)
create_job_execution_shares_environment(j, scheduled_time) ==
    [JobExecution(j.id, j.uuid, scheduled_time)
        EXCEPT !.environment_variables = j.environment_variables]

create_job_execution(j, scheduled_time) ==
    [JobExecution(j.id, j.uuid, scheduled_time)
        EXCEPT !.environment_variables =
                   dict_copy(j.environment_variables,
                             <<"JobExecution", j.id, scheduled_time>>)]

(* The eligible ones among the jobs the repository returned, in its order. *)
get_jobs_due_for_execution(due_jobs, current_time) ==
    SelectSeq(due_jobs, LAMBDA j : is_job_eligible_for_execution(j, current_time))

----------------------------------------------------------------------------
(* MySQLJobRepository *)

(* _row_to_job: a Job built from the row's fields, which runs __post_init__. *)
row_to_job(row, now) == post_init(row, now)

(* create: the row gets the next id of the table (cursor.lastrowid). *)
repository_create(rows, j) == Append(rows, [j EXCEPT !.id = Len(rows) + 1])

(* get_by_id: the row with this id unless it is deleted, rebuilt as a Job. *)
get_by_id(rows, job_id, now) ==
    IF job_id \in DOMAIN rows /\ rows[job_id].status # DELETED
    THEN Some(row_to_job(rows[job_id], now))
    ELSE None

(* A mutant of get_by_name: only active rows are looked at. *)
get_by_name_active_only(rows, name) ==
    {id \in DOMAIN rows : rows[id].name = name /\ rows[id].status = ACTIVE}

(* get_by_name: the ids of the rows the query selects; fetchone returns one
   of them, or None when there is none. *)
get_by_name(rows, name) ==
    {id \in DOMAIN rows : rows[id].name = name /\ rows[id].status # DELETED}

(* update: every column of the row with the entity's id is overwritten. *)
repository_update(rows, j) == [rows EXCEPT ![j.id] = j]

(* The ids the WHERE clause of get_due_jobs selects. *)
DueIds(rows, current_time) ==
    {id \in DOMAIN rows :
        /\ rows[id].status = ACTIVE
        /\ rows[id].next_run # Null
        /\ rows[id].next_run <= current_time}

Orderings(S) ==
    {o \in [1..Cardinality(S) -> S] :
        \A a, b \in 1..Cardinality(S) : a # b => o[a] # o[b]}

(* get_due_jobs: every order ORDER BY next_run ASC allows (rows with the same
   next_run come in any order), each row rebuilt as a Job. *)
get_due_jobs(rows, current_time) ==
    {[k \in DOMAIN o |-> row_to_job(rows[o[k]], current_time)] :
        o \in {p \in Orderings(DueIds(rows, current_time)) :
                  \A a, b \in DOMAIN p :
                      a < b => rows[p[a]].next_run <= rows[p[b]].next_run}}

----------------------------------------------------------------------------
(* The Job entity under its own operations *)

(* An Optional[datetime] argument: None stands for datetime.utcnow(). *)
OrNow(t) == IF t = Null THEN clock ELSE t

JobFrame == UNCHANGED <<execution, jobs, executions, pc, handoff, db>>

InitJob ==
    /\ clock = 0
    /\ \E status \in JobStatus, cron_expression \in ValidCron :
           job = Job(1, status, cron_expression, 3, 0)
    /\ execution = JobExecution(1, uuid4(<<"Job", 1>>), 0)
    /\ jobs = <<>>
    /\ executions = <<>>
    /\ pc = "tick"
    /\ handoff = <<>>
    /\ db = DatabaseConnection
    /\ call = [op |-> "Job", arg |-> Null]
    /\ result = Null

AdvanceClock ==
    /\ clock < MaxTime
    /\ clock' = clock + 1
    /\ call' = [op |-> "utcnow", arg |-> Null]
    /\ result' = clock + 1
    /\ UNCHANGED <<job, execution, jobs, executions, pc, handoff, db>>

JobCalculateNextRun ==
    \E t \in Times \cup {Null} :
        /\ job' = calculate_next_run(job, OrNow(t))
        /\ call' = [op |-> "calculate_next_run", arg |-> OrNow(t)]
        /\ result' = job'.next_run
        /\ UNCHANGED clock
        /\ JobFrame

JobIsDue ==
    \E t \in Times \cup {Null} :
        /\ call' = [op |-> "is_due", arg |-> OrNow(t)]
        /\ result' = is_due(job, OrNow(t))
        /\ UNCHANGED <<clock, job>>
        /\ JobFrame

JobMarkAsExecuted ==
    \E t \in Times \cup {Null} :
        /\ job' = mark_as_executed(job, OrNow(t))
        /\ call' = [op |-> "mark_as_executed", arg |-> OrNow(t)]
        /\ result' = Null
        /\ UNCHANGED clock
        /\ JobFrame

JobPause ==
    /\ job' = pause(job, clock)
    /\ call' = [op |-> "pause", arg |-> Null]
    /\ result' = Null
    /\ UNCHANGED clock
    /\ JobFrame

JobResume ==
    /\ job' = resume(job, clock)
    /\ call' = [op |-> "resume", arg |-> Null]
    /\ result' = Null
    /\ UNCHANGED clock
    /\ JobFrame

JobDeactivate ==
    /\ job' = deactivate(job, clock)
    /\ call' = [op |-> "deactivate", arg |-> Null]
    /\ result' = Null
    /\ UNCHANGED clock
    /\ JobFrame

JobActivate ==
    /\ job' = activate(job, clock)
    /\ call' = [op |-> "activate", arg |-> Null]
    /\ result' = Null
    /\ UNCHANGED clock
    /\ JobFrame

JobSoftDelete ==
    /\ job' = soft_delete(job, clock)
    /\ call' = [op |-> "soft_delete", arg |-> Null]
    /\ result' = Null
    /\ UNCHANGED clock
    /\ JobFrame

NextJob ==
    \/ AdvanceClock
    \/ JobCalculateNextRun
    \/ JobIsDue
    \/ JobMarkAsExecuted
    \/ JobPause
    \/ JobResume
    \/ JobDeactivate
    \/ JobActivate
    \/ JobSoftDelete

SpecJob == InitJob /\ [][NextJob]_vars

(* C1: for every valid cron expression and every base time t,
   calculate_next_run(t) sets next_run and returns it, and it is strictly
   greater than t, also when t is itself a trigger of the schedule. *)
C1_NextRunAfterBase ==
    call.op = "calculate_next_run" =>
        /\ result = job.next_run
        /\ job.next_run > call.arg

(* calculate_next_run has run on a base time that matches the schedule exactly. *)
C1_Witness ==
    /\ call.op = "calculate_next_run"
    /\ IsTrigger(job.cron_expression, call.arg)
    /\ call.arg > 0

(* C2: is_due(now) is true exactly when the status is Active, next_run is set
   and next_run <= now; a job that is not Active is never due. *)
C2_IsDueIff ==
    call.op = "is_due" =>
        result = (/\ job.status = ACTIVE
                  /\ job.next_run # Null
                  /\ job.next_run <= call.arg)

(* is_due has answered false for an Inactive job whose next_run has passed. *)
C2_Witness ==
    /\ call.op = "is_due"
    /\ job.status = INACTIVE
    /\ job.next_run # Null
    /\ job.next_run <= call.arg
    /\ result = FALSE

(* C5: Deleted is terminal: no Job operation changes the status of a Deleted
   job. *)
C5_DeletedIsTerminal == [][job.status = DELETED => job'.status = DELETED]_vars

(* C6: in every reachable Job state next_run is null when the status is
   Inactive or Deleted, and non-null when the status is Active. *)
C6_NextRunMatchesStatus ==
    /\ job.status \in {INACTIVE, DELETED} => job.next_run = Null
    /\ job.status = ACTIVE => job.next_run # Null

----------------------------------------------------------------------------
(* The JobExecution entity under its own operations and the retry decision *)

ExitCodes == {0, 1}

ExecFrame == UNCHANGED <<clock, job, jobs, executions, pc, handoff, db>>

InitExec ==
    /\ clock = 0
    /\ job = Job(1, ACTIVE, EveryMinute, 3, 0)
    /\ execution = JobExecution(1, uuid4(<<"Job", 1>>), 0)
    /\ jobs = <<>>
    /\ executions = <<>>
    /\ pc = "tick"
    /\ handoff = <<>>
    /\ db = DatabaseConnection
    /\ call = [op |-> "JobExecution", arg |-> Null]
    /\ result = Null

ExecStart ==
    /\ execution' = start(execution, clock)
    /\ call' = [op |-> "start", arg |-> clock]
    /\ result' = Null
    /\ ExecFrame

ExecCompleteSuccess ==
    /\ execution' = complete_success(execution, 0, "out", clock)
    /\ call' = [op |-> "complete_success", arg |-> clock]
    /\ result' = Null
    /\ ExecFrame

ExecCompleteFailure ==
    \E exit_code \in ExitCodes \cup {Null} :
        /\ execution' = complete_failure(execution, exit_code, "err", "boom", clock)
        /\ call' = [op |-> "complete_failure", arg |-> clock]
        /\ result' = Null
        /\ ExecFrame

ExecTimeout ==
    /\ execution' = timeout(execution, "Execution timed out", clock)
    /\ call' = [op |-> "timeout", arg |-> clock]
    /\ result' = Null
    /\ ExecFrame

ExecCancel ==
    /\ execution' = cancel(execution, "Execution was cancelled", clock)
    /\ call' = [op |-> "cancel", arg |-> clock]
    /\ result' = Null
    /\ ExecFrame

ExecPrepareRetry ==
    /\ execution.retry_count < MaxRetryCount
    /\ execution' = prepare_retry(execution)
    /\ call' = [op |-> "prepare_retry", arg |-> Null]
    /\ result' = Null
    /\ ExecFrame

(* should_retry_execution(execution, job) for a job of any status and limit. *)
ShouldRetryExecution ==
    \E status \in JobStatus, max_retries \in 0..MaxRetriesArg :
        LET j == [job EXCEPT !.status = status, !.max_retries = max_retries]
        IN /\ call' = [op |-> "should_retry_execution", arg |-> j]
           /\ result' = should_retry_execution(execution, j)
           /\ UNCHANGED execution
           /\ ExecFrame

NextExec ==
    \/ AdvanceClock
    \/ ExecStart
    \/ ExecCompleteSuccess
    \/ ExecCompleteFailure
    \/ ExecTimeout
    \/ ExecCancel
    \/ ExecPrepareRetry
    \/ ShouldRetryExecution

SpecExec == InitExec /\ [][NextExec]_vars

(* C7: Success, Failed, Timeout and Cancelled are terminal: no operation
   changes the status of a completed execution, except prepare_retry moving
   Failed or Timeout to Retrying. *)
C7_TerminalStatuses ==
    [][execution.status \in {SUCCESS, FAILED, TIMEOUT, CANCELLED} =>
           \/ execution'.status = execution.status
           \/ /\ execution.status \in {FAILED, TIMEOUT}
              /\ call'.op = "prepare_retry"
              /\ execution'.status = RETRYING]_vars

(* C8: the only status that can directly follow Retrying is Pending. *)
C8_RetryingThenPending ==
    [][execution.status = RETRYING =>
           execution'.status \in {RETRYING, PENDING}]_vars

(* C9: prepare_retry on a Failed or Timeout execution sets the status to
   Retrying, adds exactly 1 to retry_count and clears started_at, finished_at
   and exit_code; in any other status it changes no field. *)
C9_PrepareRetryEffect ==
    [][call'.op = "prepare_retry" =>
           IF execution.status \in {FAILED, TIMEOUT}
           THEN execution' = [execution EXCEPT !.status = RETRYING,
                                               !.retry_count = execution.retry_count + 1,
                                               !.started_at = Null,
                                               !.finished_at = Null,
                                               !.exit_code = Null]
           ELSE execution' = execution]_vars

(* prepare_retry has moved an execution that failed twice to Retrying. *)
C9_Witness ==
    /\ call.op = "prepare_retry"
    /\ execution.status = RETRYING
    /\ execution.retry_count = 2
    /\ execution.error_message = "boom"
    /\ execution.exit_code = Null

(* C10: should_retry_execution is true exactly when retry_count < max_retries,
   the execution is Failed or Timeout and the job is Active. *)
C10_ShouldRetryIff ==
    call.op = "should_retry_execution" =>
        result = (/\ execution.retry_count < call.arg.max_retries
                  /\ execution.status \in {FAILED, TIMEOUT}
                  /\ call.arg.status = ACTIVE)

(* should_retry_execution has refused a Failed execution of an Active job whose
   retry_count has reached max_retries. *)
C10_Witness ==
    /\ call.op = "should_retry_execution"
    /\ execution.status = FAILED
    /\ call.arg.status = ACTIVE
    /\ call.arg.max_retries > 0
    /\ execution.retry_count = call.arg.max_retries
    /\ result = FALSE

----------------------------------------------------------------------------
(* The scheduler loop over the repositories *)

JobIds == 1..NumJobs

InFlight(id) ==
    {k \in DOMAIN executions :
        /\ executions[k].job_id = id
        /\ executions[k].status \in {PENDING, RUNNING}}

InitSched ==
    /\ clock = 0
    /\ job = Job(1, ACTIVE, EveryMinute, 3, 0)
    /\ execution = JobExecution(1, uuid4(<<"Job", 1>>), 0)
    /\ \E crons \in [JobIds -> ValidCron] :
           jobs = [id \in JobIds |-> Job(id, ACTIVE, crons[id], 3, 0)]
    /\ executions = <<>>
    /\ pc = "tick"
    /\ handoff = [id \in JobIds |-> Null]
    /\ db = DatabaseConnection
    /\ call = [op |-> "initialize", arg |-> Null]
    /\ result = Null

(* _scheduler_tick: every job get_jobs_due_for_execution returns gets an
   execution record (create_job_execution, where the loop's TODO stands) and
   is marked as executed.  mark_as_executed acts on the entity the repository
   built for this tick; the jobs table is not written. *)
SchedulerTick ==
    /\ pc = "tick"
    /\ \E due_rows \in get_due_jobs(jobs, clock) :
           LET due_jobs == get_jobs_due_for_execution(due_rows, clock)
               marked == [k \in DOMAIN due_jobs |-> mark_as_executed(due_jobs[k], clock)]
           IN /\ Len(executions) + Len(due_jobs) <= MaxExecutions
              /\ executions' = executions \o
                     [k \in DOMAIN due_jobs |-> create_job_execution(due_jobs[k], clock)]
              /\ handoff' = [id \in JobIds |->
                     IF \E k \in DOMAIN due_jobs : due_jobs[k].id = id
                     THEN clock ELSE handoff[id]]
              /\ call' = [op |-> "_scheduler_tick", arg |-> clock]
              /\ result' = [due_jobs |-> due_jobs, marked |-> marked]
    /\ pc' = "sleep"
    /\ UNCHANGED <<clock, job, execution, jobs, db>>

(* asyncio.sleep(scheduler_interval): one time unit passes. *)
SchedulerSleep ==
    /\ pc = "sleep"
    /\ clock < MaxTime
    /\ clock' = clock + 1
    /\ pc' = "tick"
    /\ call' = [op |-> "sleep", arg |-> scheduler_interval]
    /\ result' = Null
    /\ UNCHANGED <<job, execution, jobs, executions, handoff, db>>

(* The executor starts a pending execution. *)
ExecutorStart ==
    \E k \in DOMAIN executions :
        /\ executions[k].status = PENDING
        /\ executions' = [executions EXCEPT ![k] = start(@, clock)]
        /\ call' = [op |-> "start", arg |-> k]
        /\ result' = Null
        /\ UNCHANGED <<clock, job, execution, jobs, pc, handoff, db>>

(* The executor reports the outcome of a running execution. *)
ExecutorFinish ==
    \E k \in DOMAIN executions :
        /\ executions[k].status = RUNNING
        /\ \/ executions' = [executions EXCEPT ![k] = complete_success(@, 0, "out", clock)]
           \/ executions' = [executions EXCEPT ![k] = complete_failure(@, 1, "err", "boom", clock)]
        /\ call' = [op |-> "finish", arg |-> k]
        /\ result' = Null
        /\ UNCHANGED <<clock, job, execution, jobs, pc, handoff, db>>

NextSched ==
    \/ SchedulerTick
    \/ SchedulerSleep
    \/ ExecutorStart
    \/ ExecutorFinish

SpecSched == InitSched /\ [][NextSched]_vars

(* C3: in every reachable state of the scheduler each job has at most one
   execution whose status is Pending or Running. *)
C3_OneInFlightPerJob == \A id \in JobIds : Cardinality(InFlight(id)) <= 1

(* C4: once a tick at time T has handed a job off (mark_as_executed), no later
   tick gets that job from get_jobs_due_for_execution before the time has
   reached the job's next cron trigger after T. *)
C4_NoRefireBeforeNextTrigger ==
    [][call'.op = "_scheduler_tick" =>
           \A k \in DOMAIN result'.due_jobs :
               LET j == result'.due_jobs[k]
               IN handoff[j.id] # Null =>
                      call'.arg >= croniter_get_next(j.cron_expression, handoff[j.id])]_vars

----------------------------------------------------------------------------
(* The retry delay as a function of retry_count and retry_delay_seconds *)

(* The retry_delay_seconds the service accepts (>= 0), below, at and above
   the cap. *)
RetryDelays == {0, 1, 10, 60, 2000, 3600, 5000}

(* A time of the model in seconds. *)
Seconds(t) == t * scheduler_interval

InitBackoff ==
    /\ clock = 0
    /\ job = Job(1, ACTIVE, EveryMinute, 3, 0)
    /\ execution = JobExecution(1, uuid4(<<"Job", 1>>), 0)
    /\ jobs = <<>>
    /\ executions = <<>>
    /\ pc = "tick"
    /\ handoff = <<>>
    /\ db = DatabaseConnection
    /\ call = [op |-> "JobExecution", arg |-> Null]
    /\ result = Null

(* calculate_retry_time(execution, job, now) for an execution with any
   retry_count and a job with any permitted retry_delay_seconds. *)
CalculateRetryTime ==
    \E retry_count \in 0..MaxBackoffCount, retry_delay_seconds \in RetryDelays :
        LET e == [execution EXCEPT !.status = FAILED, !.retry_count = retry_count]
            j == [job EXCEPT !.retry_delay_seconds = retry_delay_seconds]
        IN /\ call' = [op |-> "calculate_retry_time",
                       arg |-> [execution |-> e, job |-> j, base_time |-> Seconds(clock)]]
           /\ result' = calculate_retry_time(e, j, Seconds(clock))
           /\ UNCHANGED <<clock, job, execution, jobs, executions, pc, handoff, db>>

NextBackoff ==
    \/ AdvanceClock
    \/ CalculateRetryTime

SpecBackoff == InitBackoff /\ [][NextBackoff]_vars

(* The delay of the last calculate_retry_time call, and of the same call one
   retry later. *)
Delay == result - call.arg.base_time

DelayAfterOneMore ==
    calculate_retry_time(
        [call.arg.execution EXCEPT !.retry_count = @ + 1],
        call.arg.job, call.arg.base_time) - call.arg.base_time

(* C11: calculate_retry_time returns now + min(retry_delay_seconds *
   2^retry_count, 3600) seconds: the delay is the doubled base delay while that
   is at most 3600 and 3600 otherwise, so it never exceeds 3600. *)
C11_DelayCapped ==
    call.op = "calculate_retry_time" =>
        LET d == call.arg.job.retry_delay_seconds
            n == call.arg.execution.retry_count
        IN /\ Delay <= 3600
           /\ Delay >= 0
           /\ d * (2 ^ n) <= 3600 => Delay = d * (2 ^ n)
           /\ d * (2 ^ n) > 3600 => Delay = 3600

(* calculate_retry_time has cut a doubled delay of more than an hour to 3600. *)
C11_Witness ==
    /\ call.op = "calculate_retry_time"
    /\ call.arg.job.retry_delay_seconds = 10
    /\ call.arg.execution.retry_count = 9
    /\ call.arg.base_time > 0
    /\ result = call.arg.base_time + 3600

(* C12 as stated: for every retry_delay_seconds >= 0, a delay below the cap is
   followed by a strictly larger delay one retry later. *)
C12_StrictlyIncreasing ==
    call.op = "calculate_retry_time" =>
        (Delay < 3600 => DelayAfterOneMore > Delay)

(* C12 amended: the same for every retry_delay_seconds >= 1; with
   retry_delay_seconds = 0 the delay is 0 for every retry_count. *)
C12_StrictlyIncreasingWhenPositive ==
    call.op = "calculate_retry_time" =>
        /\ call.arg.job.retry_delay_seconds >= 1 =>
               (Delay < 3600 => DelayAfterOneMore > Delay)
        /\ call.arg.job.retry_delay_seconds = 0 =>
               (Delay = 0 /\ DelayAfterOneMore = 0)

(* A delay below the cap whose successor is cut to the cap. *)
C12_Witness ==
    /\ call.op = "calculate_retry_time"
    /\ call.arg.job.retry_delay_seconds = 2000
    /\ call.arg.execution.retry_count = 0
    /\ Delay = 2000
    /\ DelayAfterOneMore = 3600

----------------------------------------------------------------------------
(* The failure/retry cycle of one execution: every attempt is started, and its
   outcome is handled with should_retry_execution, calculate_retry_time and
   prepare_retry, prepare_retry being applied only when should_retry_execution
   returned true. *)

Outcomes == {"success", "failure", "timeout"}

(* The retry_delay_seconds of the jobs of the cycle. *)
CycleDelays == {0, 10, 2000}

InitRetry ==
    /\ clock = 0
    /\ \E status \in JobStatus, max_retries \in 0..MaxRetriesArg,
          retry_delay_seconds \in CycleDelays :
           job = [Job(1, status, EveryMinute, max_retries, 0)
                      EXCEPT !.retry_delay_seconds = retry_delay_seconds]
    /\ execution = JobExecution(1, uuid4(<<"Job", 1>>), 0)
    /\ jobs = <<>>
    /\ executions = <<>>
    /\ pc = "tick"
    /\ handoff = <<>>
    /\ db = DatabaseConnection
    /\ call = [op |-> "JobExecution", arg |-> Null]
    /\ result = Null

(* An attempt begins: the first one, or the next one of an execution that
   prepare_retry has moved to Retrying. *)
RetryStart ==
    /\ execution.status \in {PENDING, RETRYING}
    /\ execution' = start(execution, clock)
    /\ call' = [op |-> "start", arg |-> clock]
    /\ result' = Null
    /\ ExecFrame

(* The outcome of the running attempt is recorded: the terminal transition,
   then, for a failure or a timeout, the retry decision, the retry time and
   prepare_retry. *)
RecordOutcome ==
    /\ execution.status = RUNNING
    /\ \E outcome \in Outcomes :
         LET done == CASE outcome = "success" ->
                              complete_success(execution, 0, "out", clock)
                       [] outcome = "failure" ->
                              complete_failure(execution, 1, "err", "boom", clock)
                       [] outcome = "timeout" ->
                              timeout(execution, "Execution timed out", clock)
             retry == outcome # "success" /\ should_retry_execution(done, job)
         IN /\ execution' = IF retry THEN prepare_retry(done) ELSE done
            /\ call' = [op |-> "record_outcome",
                        arg |-> [outcome |-> outcome, execution |-> done,
                                 base_time |-> Seconds(clock)]]
            /\ result' = [retry |-> retry,
                          retry_time |-> IF retry
                                         THEN calculate_retry_time(done, job, Seconds(clock))
                                         ELSE Null]
    /\ ExecFrame

NextRetry ==
    \/ AdvanceClock
    \/ RetryStart
    \/ RecordOutcome

SpecRetry == InitRetry /\ [][NextRetry]_vars

(* The job of Scenario A. *)
ScenarioA ==
    /\ job.status = ACTIVE
    /\ job.max_retries = 2
    /\ job.retry_delay_seconds = 10

(* C13: for an Active job with max_retries = 2 and retry_delay_seconds = 10 the
   first failure of an execution is retried after 10 s, the second after 20 s,
   and after the third should_retry_execution is false: the execution stays
   failed and is not retried. *)
C13_ScenarioA ==
    (ScenarioA /\ call.op = "record_outcome" /\ call.arg.outcome # "success") =>
        LET failures == call.arg.execution.retry_count + 1
            delay == result.retry_time - call.arg.base_time
        IN /\ failures \in 1..3
           /\ failures = 1 => (result.retry /\ delay = 10)
           /\ failures = 2 => (result.retry /\ delay = 20)
           /\ failures \in 1..2 =>
                  (execution.status = RETRYING /\ execution.retry_count = failures)
           /\ failures = 3 =>
                  /\ ~result.retry
                  /\ ~should_retry_execution(execution, job)
                  /\ execution.status \in {FAILED, TIMEOUT}
                  /\ execution.retry_count = 2

(* The third failure of the execution of Scenario A has been refused a retry. *)
C13_Witness ==
    /\ ScenarioA
    /\ call.op = "record_outcome"
    /\ call.arg.execution.retry_count = 2
    /\ execution.status = FAILED
    /\ result.retry = FALSE

(* C14: when prepare_retry is applied only after should_retry_execution returned
   true, retry_count never exceeds the job's max_retries, and a failure of an
   execution that has used up its retries leaves it in its terminal status, from
   which no further attempt starts. *)
C14_RetryCycleBounded ==
    [][/\ execution'.retry_count <= job.max_retries
       /\ (call'.op = "record_outcome" /\ call'.arg.outcome # "success"
             /\ call'.arg.execution.retry_count >= job.max_retries) =>
              (~result'.retry /\ execution'.status \in {FAILED, TIMEOUT})
       /\ (execution.status \in {FAILED, TIMEOUT}
             /\ execution.retry_count >= job.max_retries) =>
              execution' = execution]_vars

(* An execution that timed out after using both retries of its job is left in
   Timeout. *)
C14_Witness ==
    /\ job.max_retries = 2
    /\ call.op = "record_outcome"
    /\ result.retry = FALSE
    /\ execution.status = TIMEOUT
    /\ execution.retry_count = job.max_retries

----------------------------------------------------------------------------
(* get_jobs_due_for_execution over any answer of a JobRepositoryInterface *)

(* The next_run values of a candidate: None, or a trigger time of its cron
   expression. *)
CandidateNextRuns == {Null} \cup {t \in Times : IsTrigger(EveryMinute, t)}

InitDue ==
    /\ clock = 0
    /\ job = Job(1, ACTIVE, EveryMinute, 3, 0)
    /\ execution = JobExecution(1, uuid4(<<"Job", 1>>), 0)
    /\ jobs = <<>>
    /\ executions = <<>>
    /\ pc = "tick"
    /\ handoff = <<>>
    /\ db = DatabaseConnection
    /\ call = [op |-> "initialize", arg |-> Null]
    /\ result = Null

(* The repository's answer to get_due_jobs gets one more candidate: a job of
   any status with any next_run, stale ones included.  jobs is the sequence
   the repository returns. *)
RepositoryCandidate ==
    /\ Len(jobs) < NumJobs
    /\ \E status \in JobStatus, next_run \in CandidateNextRuns :
           jobs' = Append(jobs, [Job(Len(jobs) + 1, status, EveryMinute, 3, 0)
                                    EXCEPT !.next_run = next_run])
    /\ call' = [op |-> "get_due_jobs", arg |-> Null]
    /\ result' = jobs'
    /\ UNCHANGED <<clock, job, execution, executions, pc, handoff, db>>

(* get_jobs_due_for_execution(current_time) over the repository's answer. *)
GetJobsDueForExecution ==
    /\ call' = [op |-> "get_jobs_due_for_execution",
                arg |-> [due_jobs |-> jobs, current_time |-> clock]]
    /\ result' = get_jobs_due_for_execution(jobs, clock)
    /\ UNCHANGED <<clock, job, execution, jobs, executions, pc, handoff, db>>

NextDue ==
    \/ AdvanceClock
    \/ RepositoryCandidate
    \/ GetJobsDueForExecution

SpecDue == InitDue /\ [][NextDue]_vars

(* C15: every job get_jobs_due_for_execution(now) returns is Active and has a
   non-null next_run <= now, whatever candidates the repository returned. *)
C15_ReturnedJobsAreDue ==
    call.op = "get_jobs_due_for_execution" =>
        \A k \in DOMAIN result :
            /\ result[k].status = ACTIVE
            /\ result[k].next_run # Null
            /\ result[k].next_run <= call.arg.current_time

(* A stale Paused candidate and an Active one that is not yet due have been
   dropped, or the answer of two candidates has kept only its due Active
   one. *)
C15_Witness ==
    /\ call.op = "get_jobs_due_for_execution"
    /\ Len(call.arg.due_jobs) = 2
    /\ \E k \in DOMAIN call.arg.due_jobs :
           LET j == call.arg.due_jobs[k]
           IN \/ j.status = PAUSED /\ j.next_run # Null
                    /\ j.next_run <= call.arg.current_time
              \/ j.status = ACTIVE /\ j.next_run > call.arg.current_time
    /\ Len(result) = 1
    /\ result[1].status = ACTIVE

(* C16 as stated: the jobs a tick gets from get_jobs_due_for_execution are in
   ascending next_run order, jobs with equal next_run in ascending id order. *)
C16_OrderedByNextRunThenId ==
    call.op = "_scheduler_tick" =>
        \A a, b \in DOMAIN result.due_jobs :
            a < b =>
                \/ result.due_jobs[a].next_run < result.due_jobs[b].next_run
                \/ /\ result.due_jobs[a].next_run = result.due_jobs[b].next_run
                   /\ result.due_jobs[a].id < result.due_jobs[b].id

----------------------------------------------------------------------------
(* create_job and update_job, called by concurrent callers.  A call runs
   without interruption from one await of the repository to the next; jobs is
   the jobs table, and pc the position of each caller's call. *)

Callers == {"c1", "c2"}

Names == {"a", "b"}

Idle == [op |-> "idle"]

NoArgs ==
    [name |-> None, cron_expression |-> None, command |-> None,
     description |-> None, timeout_seconds |-> None, max_retries |-> None,
     retry_delay_seconds |-> None]

(* The argument lists update_job is called with: a new name, a new cron
   expression (valid or not), and settings that pass or fail validation, alone
   and after other fields. *)
UpdateArgs ==
    {[NoArgs EXCEPT !.name = Some(n)] : n \in Names}
    \cup {[NoArgs EXCEPT !.cron_expression = Some(c)] : c \in {EveryOtherMinute, InvalidCron}}
    \cup {[NoArgs EXCEPT !.name = Some("b"), !.cron_expression = Some(InvalidCron)]}
    \cup {[NoArgs EXCEPT !.command = Some("new cmd"), !.description = Some("new"),
                         !.timeout_seconds = Some(t)] : t \in {0, 600}}
    \cup {[NoArgs EXCEPT !.max_retries = Some(m), !.retry_delay_seconds = Some(d)] :
              m \in {-1, 1}, d \in {-1, 30}}
    \cup {[NoArgs EXCEPT !.name = Some("b"), !.cron_expression = Some(EveryOtherMinute),
                         !.timeout_seconds = Some(0)]}

(* update_job called with one field: a new cron expression, a new command, a
   new description or a new max_retries. *)
EditArgs ==
    {[NoArgs EXCEPT !.cron_expression = Some(EveryOtherMinute)],
     [NoArgs EXCEPT !.command = Some("new cmd")],
     [NoArgs EXCEPT !.description = Some("new")],
     [NoArgs EXCEPT !.max_retries = Some(1)]}

(* With concurrent callers update_job is called with a new name only, which
   is all the name check depends on; a single caller goes through every
   argument list. *)
CallArgs ==
    IF DOMAIN pc = Callers
    THEN {a \in UpdateArgs : a = [NoArgs EXCEPT !.name = a.name]}
    ELSE IF DOMAIN pc = {"c1"}
    THEN UpdateArgs
    ELSE EditArgs

(* create_job's timeout_seconds, max_retries and retry_delay_seconds: the
   defaults, and a value of each that update_job would reject.  Concurrent
   callers use the defaults. *)
DefaultSettings ==
    [timeout_seconds |-> 300, max_retries |-> 3, retry_delay_seconds |-> 60]

CreateSettings ==
    IF DOMAIN pc = Callers
    THEN {DefaultSettings}
    ELSE {DefaultSettings,
          [DefaultSettings EXCEPT !.timeout_seconds = 0],
          [DefaultSettings EXCEPT !.max_retries = -1],
          [DefaultSettings EXCEPT !.retry_delay_seconds = -1]}

Done(error, j, fetched) ==
    [done |-> TRUE, error |-> error, job |-> j, fetched |-> fetched]

Pending(j, fetched) ==
    [done |-> FALSE, error |-> NoError, job |-> j, fetched |-> fetched]

(* The table is empty or holds one job, which may be paused or deleted. *)
InitTable ==
    /\ clock = 0
    /\ job = Job(1, ACTIVE, EveryMinute, 3, 0)
    /\ execution = JobExecution(1, uuid4(<<"Job", 1>>), 0)
    /\ \/ jobs = <<>>
       \/ \E status \in {ACTIVE, PAUSED, DELETED} :
              jobs = <<[Job(1, status, EveryMinute, 3, 0) EXCEPT !.name = "a"]>>
    /\ executions = <<>>
    /\ handoff = <<>>
    /\ db = DatabaseConnection
    /\ call = [op |-> "initialize", arg |-> Null]
    /\ result = Pending(None, None)

InitSvc ==
    /\ InitTable
    /\ pc = [c \in Callers |-> Idle]

InitUpdate ==
    /\ InitTable
    /\ pc = [c \in {"c1"} |-> Idle]

SvcFrame == UNCHANGED <<clock, job, execution, executions, handoff, db>>

CreatesInFlight == {c \in DOMAIN pc : pc[c].op = "create_job"}

(* create_job up to its second await: get_by_name, the duplicate check and the
   construction of the Job, whose __post_init__ validates the expression. *)
CreateJob(c) ==
    /\ pc[c].op = "idle"
    /\ Len(jobs) + Cardinality(CreatesInFlight) < NumJobs
    /\ \E name \in Names, cron_expression \in {EveryMinute, InvalidCron},
          settings \in CreateSettings :
           /\ call' = [op |-> "create_job", caller |-> c, step |-> "get_by_name",
                       arg |-> [name |-> name, cron_expression |-> cron_expression,
                                settings |-> settings]]
           /\ IF get_by_name(jobs, name) # {}
              THEN /\ result' = Done(DuplicateName, None, None)
                   /\ pc' = pc
              ELSE IF ~validate_cron_expression([cron_expression |-> cron_expression])
              THEN /\ result' = Done(InvalidCronExpression, None, None)
                   /\ pc' = pc
              ELSE LET j == [Job(Null, ACTIVE, cron_expression, settings.max_retries, clock)
                                EXCEPT !.name = name,
                                       !.timeout_seconds = settings.timeout_seconds,
                                       !.retry_delay_seconds = settings.retry_delay_seconds]
                   IN /\ result' = Pending(Some(j), None)
                      /\ pc' = [pc EXCEPT ![c] = [op |-> "create_job", job |-> j]]
    /\ UNCHANGED jobs
    /\ SvcFrame

(* create_job's second await: the repository's create. *)
CreateJobPersist(c) ==
    /\ pc[c].op = "create_job"
    /\ jobs' = repository_create(jobs, pc[c].job)
    /\ call' = [op |-> "create_job", caller |-> c, step |-> "create",
                arg |-> [name |-> pc[c].job.name,
                         cron_expression |-> pc[c].job.cron_expression,
                         settings |-> [timeout_seconds |-> pc[c].job.timeout_seconds,
                                       max_retries |-> pc[c].job.max_retries,
                                       retry_delay_seconds |-> pc[c].job.retry_delay_seconds]]]
    /\ result' = Done(NoError, Some(jobs'[Len(jobs')]), None)
    /\ pc' = [pc EXCEPT ![c] = Idle]
    /\ SvcFrame

(* update_job from the name check's result on: the name is assigned, then the
   other fields; an error ends the call, otherwise the repository's update is
   what remains. *)
UpdateJobFields(c, job_id, args, j, fetched, step) ==
    LET r == update_job_fields(Assign(j, "name", args.name), args, clock)
    IN /\ call' = [op |-> "update_job", caller |-> c, step |-> step,
                   arg |-> [job_id |-> job_id, args |-> args]]
       /\ IF r.error # NoError
          THEN /\ result' = Done(r.error, Some(r.job), Some(fetched))
               /\ pc' = [pc EXCEPT ![c] = Idle]
          ELSE /\ result' = Pending(Some(r.job), Some(fetched))
               /\ pc' = [pc EXCEPT ![c] =
                            [op |-> "update_job", step |-> "update", job_id |-> job_id,
                             args |-> args, job |-> r.job, fetched |-> fetched]]

(* update_job up to its next await: get_by_id, then either the await of
   get_by_name (a new name is given) or the assignments and validations. *)
UpdateJob(c) ==
    /\ pc[c].op = "idle"
    /\ \E job_id \in JobIds, args \in CallArgs :
           LET found == get_by_id(jobs, job_id, clock)
           IN IF found = None
              THEN /\ call' = [op |-> "update_job", caller |-> c, step |-> "get_by_id",
                               arg |-> [job_id |-> job_id, args |-> args]]
                   /\ result' = Done(NotFound, None, None)
                   /\ pc' = pc
              ELSE IF args.name # None /\ args.name[1] # found[1].name
              THEN /\ call' = [op |-> "update_job", caller |-> c, step |-> "get_by_id",
                               arg |-> [job_id |-> job_id, args |-> args]]
                   /\ result' = Pending(found, found)
                   /\ pc' = [pc EXCEPT ![c] =
                                [op |-> "update_job", step |-> "get_by_name",
                                 job_id |-> job_id, args |-> args,
                                 job |-> found[1], fetched |-> found[1]]]
              ELSE UpdateJobFields(c, job_id, args, found[1], found[1], "get_by_id")
    /\ UNCHANGED jobs
    /\ SvcFrame

(* update_job after the await of get_by_name. *)
UpdateJobCheckName(c) ==
    /\ pc[c].op = "update_job"
    /\ pc[c].step = "get_by_name"
    /\ IF get_by_name(jobs, pc[c].args.name[1]) # {}
       THEN /\ call' = [op |-> "update_job", caller |-> c, step |-> "get_by_name",
                        arg |-> [job_id |-> pc[c].job_id, args |-> pc[c].args]]
            /\ result' = Done(DuplicateName, Some(pc[c].job), Some(pc[c].fetched))
            /\ pc' = [pc EXCEPT ![c] = Idle]
       ELSE UpdateJobFields(c, pc[c].job_id, pc[c].args, pc[c].job, pc[c].fetched,
                            "get_by_name")
    /\ UNCHANGED jobs
    /\ SvcFrame

(* update_job's last await: the repository's update. *)
UpdateJobPersist(c) ==
    /\ pc[c].op = "update_job"
    /\ pc[c].step = "update"
    /\ jobs' = repository_update(jobs, pc[c].job)
    /\ call' = [op |-> "update_job", caller |-> c, step |-> "update",
                arg |-> [job_id |-> pc[c].job_id, args |-> pc[c].args]]
    /\ result' = Done(NoError, Some(pc[c].job), Some(pc[c].fetched))
    /\ pc' = [pc EXCEPT ![c] = Idle]
    /\ SvcFrame

NextSvc ==
    \/ \E c \in DOMAIN pc : CreateJob(c)
    \/ \E c \in DOMAIN pc : CreateJobPersist(c)
    \/ \E c \in DOMAIN pc : UpdateJob(c)
    \/ \E c \in DOMAIN pc : UpdateJobCheckName(c)
    \/ \E c \in DOMAIN pc : UpdateJobPersist(c)

SpecSvc == InitSvc /\ [][NextSvc]_vars

SpecUpdate == InitUpdate /\ [][NextSvc]_vars

(* C17 as stated: after any interleaving of create_job and update_job calls no
   two jobs of the table that are not deleted have the same name. *)
C17_UniqueNames ==
    \A a, b \in DOMAIN jobs :
        (a # b /\ jobs[a].status # DELETED /\ jobs[b].status # DELETED) =>
            jobs[a].name # jobs[b].name

(* C18: create_job with a name that a job which is not deleted already has
   fails with the duplicate-name error, adds no job and leaves every job of the
   table as it was. *)
C18_DuplicateNameRejected ==
    [][(/\ call'.op = "create_job"
        /\ call'.step = "get_by_name"
        /\ \E id \in DOMAIN jobs :
               jobs[id].name = call'.arg.name /\ jobs[id].status # DELETED) =>
           /\ result'.done
           /\ result'.error = DuplicateName
           /\ jobs' = jobs
           /\ pc'[call'.caller] = Idle]_vars

(* create_job has been refused the name of a paused job. *)
C18_Witness ==
    /\ call.op = "create_job"
    /\ result.done
    /\ result.error = DuplicateName
    /\ \E id \in DOMAIN jobs :
           jobs[id].name = call.arg.name /\ jobs[id].status = PAUSED

(* C19 as stated: update_job with an invalid cron_expression fails, the entity
   obtained from the repository keeps its name, cron_expression and next_run,
   and the repository's update is not called. *)
C19_InvalidCronLeavesJobUnchanged ==
    [][(/\ call'.op = "update_job"
        /\ call'.arg.args.cron_expression = Some(InvalidCron)
        /\ result'.done
        /\ result'.fetched # None) =>
           /\ result'.error # NoError
           /\ result'.job[1].name = result'.fetched[1].name
           /\ result'.job[1].cron_expression = result'.fetched[1].cron_expression
           /\ result'.job[1].next_run = result'.fetched[1].next_run
           /\ jobs' = jobs]_vars

(* C20 as stated: when update_job is given a numeric setting that fails
   validation, the call fails and the entity obtained from the repository has
   none of its fields changed. *)
C20_AllOrNothing ==
    (/\ call.op = "update_job"
     /\ LET args == call.arg.args
        IN \/ args.timeout_seconds # None /\ args.timeout_seconds[1] <= 0
           \/ args.max_retries # None /\ args.max_retries[1] < 0
           \/ args.retry_delay_seconds # None /\ args.retry_delay_seconds[1] < 0
     /\ result.done
     /\ result.fetched # None) =>
        /\ result.error # NoError
        /\ result.job = result.fetched

(* C21 as stated: every job create_job or update_job has written to the table
   has timeout_seconds > 0, max_retries >= 0 and retry_delay_seconds >= 0. *)
C21_PersistedSettingsValid ==
    \A id \in DOMAIN jobs :
        /\ jobs[id].timeout_seconds > 0
        /\ jobs[id].max_retries >= 0
        /\ jobs[id].retry_delay_seconds >= 0

(* C22: create_job with a cron expression that cannot be parsed fails: when
   the name is free, so that the Job is constructed, with the
   invalid-cron-expression error; no Job results and nothing is written. *)
C22_InvalidCronRejected ==
    [][(/\ call'.op = "create_job"
        /\ call'.step = "get_by_name"
        /\ call'.arg.cron_expression = InvalidCron) =>
           /\ result'.done
           /\ result'.error =
                  IF \E id \in DOMAIN jobs :
                         jobs[id].name = call'.arg.name /\ jobs[id].status # DELETED
                  THEN DuplicateName
                  ELSE InvalidCronExpression
           /\ result'.job = None
           /\ jobs' = jobs
           /\ pc'[call'.caller] = Idle]_vars

(* create_job has refused an unparsable expression for a name that only a
   deleted job has. *)
C22_Witness ==
    /\ call.op = "create_job"
    /\ call.arg.cron_expression = InvalidCron
    /\ call.arg.name = "a"
    /\ result.done
    /\ result.error = InvalidCronExpression
    /\ Len(jobs) = 1
    /\ jobs[1].status = DELETED

----------------------------------------------------------------------------
(* The Job entity: pause, resume, activate and mark_as_executed *)

(* C23: pause() and resume() leave cron_expression unchanged, and resume() at
   time R of a paused job yields status Active with a next_run computed from R,
   which is greater than R. *)
C23_PauseResume ==
    [][/\ call'.op \in {"pause", "resume"} =>
              job'.cron_expression = job.cron_expression
       /\ (call'.op = "resume" /\ job.status = PAUSED) =>
              /\ job'.status = ACTIVE
              /\ job'.next_run = croniter_get_next(job.cron_expression, clock)
              /\ job'.next_run > clock]_vars

(* resume() has replaced a next_run that passed during the pause. *)
C23_Witness ==
    /\ call.op = "resume"
    /\ job.status = ACTIVE
    /\ job.updated_at = clock
    /\ job.last_run = Null
    /\ clock >= 3
    /\ job.next_run > clock

(* C24: pause() never changes next_run: on an Active job it sets the status to
   Paused and updated_at and nothing else, and the paused job is due at no
   time; on a job of any other status it changes nothing. *)
C24_PauseKeepsNextRun ==
    [][call'.op = "pause" =>
           IF job.status = ACTIVE
           THEN /\ job' = [job EXCEPT !.status = PAUSED, !.updated_at = clock]
                /\ job'.next_run = job.next_run
                /\ \A t \in Times : ~is_due(job', t)
           ELSE job' = job]_vars

(* pause() has left a paused job with a next_run that has passed. *)
C24_Witness ==
    /\ call.op = "pause"
    /\ job.status = PAUSED
    /\ job.updated_at = clock
    /\ job.next_run # Null
    /\ job.next_run < clock

(* C25: activate() moves an Inactive or Paused job to Active with a next_run
   computed from the time of the call, which is greater than it; on an Active
   or Deleted job it changes neither status nor next_run. *)
C25_Activate ==
    [][call'.op = "activate" =>
           IF job.status \in {INACTIVE, PAUSED}
           THEN /\ job'.status = ACTIVE
                /\ job'.next_run = croniter_get_next(job.cron_expression, clock)
                /\ job'.next_run > clock
           ELSE /\ job'.status = job.status
                /\ job'.next_run = job.next_run]_vars

(* activate() has given a job a next_run after a time at which the schedule
   triggers. *)
C25_Witness ==
    /\ call.op = "activate"
    /\ job.status = ACTIVE
    /\ job.updated_at = clock
    /\ clock = 4
    /\ job.cron_expression = EveryOtherMinute
    /\ job.next_run = 8

(* C26: after mark_as_executed(t) last_run is t and next_run is the first
   trigger after t. *)
C26_MarkAsExecuted ==
    call.op = "mark_as_executed" =>
        /\ job.last_run = call.arg
        /\ job.next_run = croniter_get_next(job.cron_expression, call.arg)
        /\ job.next_run > call.arg

(* mark_as_executed(t) at a trigger time t of the schedule. *)
C26_Witness ==
    /\ call.op = "mark_as_executed"
    /\ call.arg = 2
    /\ job.cron_expression = EveryMinute
    /\ job.last_run = 2
    /\ job.next_run = 4

(* C27 as stated: for a job whose next_run was computed at creation,
   mark_as_executed(t) with t at or after the creation time leaves a next_run
   different from the one before the call. *)
C27_MarkAsExecutedChangesNextRun ==
    [][(/\ call'.op = "mark_as_executed"
        /\ job.next_run = croniter_get_next(job.cron_expression, job.created_at)
        /\ call'.arg >= job.created_at) =>
           job'.next_run # job.next_run]_vars

----------------------------------------------------------------------------
(* create_job_execution and the job's environment variables *)

EnvKeys == {"MODE", "PATH"}

EnvValues == {"fast", "slow"}

InitEnv ==
    /\ clock = 0
    /\ job = Job(1, ACTIVE, EveryMinute, 3, 0)
    /\ execution = JobExecution(1, uuid4(<<"Job", 1>>), 0)
    /\ jobs = <<>>
    /\ executions = <<>>
    /\ pc = "tick"
    /\ handoff = <<>>
    /\ db = DatabaseConnection
    /\ call = [op |-> "Job", arg |-> Null]
    /\ result = Null

(* An execution after a change of the dict d: an execution that holds the very
   object d sees the change. *)
SeenThrough(e, d) ==
    IF e.environment_variables.id = d.id
    THEN [e EXCEPT !.environment_variables = d]
    ELSE e

EnvFrame == UNCHANGED <<clock, execution, jobs, pc, handoff, db>>

JobSetEnvironmentVariable ==
    \E key \in EnvKeys, value \in EnvValues :
        /\ job' = set_environment_variable(job, key, value, clock)
        /\ executions' = [k \in DOMAIN executions |->
                              SeenThrough(executions[k], job'.environment_variables)]
        /\ call' = [op |-> "set_environment_variable", arg |-> <<key, value>>]
        /\ result' = Null
        /\ EnvFrame

JobRemoveEnvironmentVariable ==
    \E key \in EnvKeys :
        /\ job' = remove_environment_variable(job, key, clock)
        /\ executions' = [k \in DOMAIN executions |->
                              SeenThrough(executions[k], job'.environment_variables)]
        /\ call' = [op |-> "remove_environment_variable", arg |-> key]
        /\ result' = Null
        /\ EnvFrame

(* create_job_execution(job): the execution is built and the execution
   repository's create stores it. *)
CreateJobExecution ==
    /\ Len(executions) < MaxExecutions
    /\ \E scheduled_time \in {Null, clock} :
           /\ executions' = Append(executions,
                                   create_job_execution(job, OrNow(scheduled_time)))
           /\ call' = [op |-> "create_job_execution", arg |-> scheduled_time]
           /\ result' = executions'[Len(executions')]
    /\ UNCHANGED job
    /\ EnvFrame

NextEnv ==
    \/ JobSetEnvironmentVariable
    \/ JobRemoveEnvironmentVariable
    \/ CreateJobExecution

SpecEnv == InitEnv /\ [][NextEnv]_vars

(* C28: create_job_execution stores a new execution that is Pending, has
   retry_count 0, the job's id and uuid and the job's environment variables of
   that moment; later set_environment_variable and remove_environment_variable
   calls on the job change no execution's environment variables. *)
C28_ExecutionSnapshot ==
    [][/\ call'.op = "create_job_execution" =>
              /\ executions' = Append(executions, result')
              /\ result'.status = PENDING
              /\ result'.retry_count = 0
              /\ result'.job_id = job.id
              /\ result'.job_uuid = job.uuid
              /\ result'.environment_variables.items = job.environment_variables.items
       /\ call'.op \in {"set_environment_variable", "remove_environment_variable"} =>
              \A k \in DOMAIN executions :
                  executions'[k].environment_variables.items =
                      executions[k].environment_variables.items]_vars

(* An execution keeps the variables of its creation after the job's have been
   changed. *)
C28_Witness ==
    /\ call.op = "remove_environment_variable"
    /\ Len(executions) = 2
    /\ executions[1].environment_variables.items = [MODE |-> "fast"]
    /\ executions[2].environment_variables.items = [MODE |-> "slow", PATH |-> "fast"]
    /\ job.environment_variables.items = [PATH |-> "fast"]

----------------------------------------------------------------------------
(* The tags of a job *)

Tags == {"backup", "important", "nightly"}

(* A job created without tags. *)
InitTags ==
    /\ clock = 0
    /\ job = Job(1, ACTIVE, EveryMinute, 3, 0)
    /\ execution = JobExecution(1, uuid4(<<"Job", 1>>), 0)
    /\ jobs = <<>>
    /\ executions = <<>>
    /\ pc = "tick"
    /\ handoff = <<>>
    /\ db = DatabaseConnection
    /\ call = [op |-> "Job", arg |-> Null]
    /\ result = Null

JobAddTag ==
    \E tag \in Tags :
        /\ job' = add_tag(job, tag, clock)
        /\ call' = [op |-> "add_tag", arg |-> tag]
        /\ result' = Null
        /\ UNCHANGED clock
        /\ JobFrame

JobRemoveTag ==
    \E tag \in Tags :
        /\ job' = remove_tag(job, tag, clock)
        /\ call' = [op |-> "remove_tag", arg |-> tag]
        /\ result' = Null
        /\ UNCHANGED clock
        /\ JobFrame

NextTags ==
    \/ AdvanceClock
    \/ JobAddTag
    \/ JobRemoveTag

SpecTags == InitTags /\ [][NextTags]_vars

(* C30: the tags of a job created without tags behave as a set: the list never
   has a tag twice, add_tag leaves the tag in the list and remove_tag out of
   it, and neither touches the presence of any other tag. *)
C30_TagsAreASet ==
    [][/\ Cardinality(Range(job'.tags)) = Len(job'.tags)
       /\ call'.op = "add_tag" =>
              Range(job'.tags) = Range(job.tags) \cup {call'.arg}
       /\ call'.op = "remove_tag" =>
              Range(job'.tags) = Range(job.tags) \ {call'.arg}]_vars

(* A tag has been added again after its removal, behind a tag added later. *)
C30_Witness ==
    /\ call.op = "add_tag"
    /\ call.arg = "backup"
    /\ job.tags = <<"important", "backup">>
    /\ job.updated_at = clock
    /\ clock > 0


(* ------------------------------------------------------------------ *)
(* get_job_statistics                                                   *)
(* ------------------------------------------------------------------ *)

MaxSuccessful == 7

MaxFailed == 3

(* duration_seconds: Null until the execution has both a start and a finish
   time, and then their difference in seconds. *)
duration_seconds(e) ==
    IF e.started_at = Null \/ e.finished_at = Null
    THEN Null
    ELSE (e.finished_at - e.started_at) * scheduler_interval

(* A mutant of is_successful: a failed execution counts as successful. *)
is_successful_or_failed(e) == e.status \in {SUCCESS, FAILED}

is_successful(e) == e.status = SUCCESS

(* get_by_job_id without a limit: the rows of the job. The rows of the model
   have one scheduled_time, so ORDER BY scheduled_time leaves their order
   open, and the table's order is one it may take. *)
get_by_job_id(rows, job_id) ==
    SelectSeq(rows, LAMBDA e : e.job_id = job_id)

RECURSIVE sum(_)
sum(s) == IF s = <<>> THEN 0 ELSE s[1] + sum(Tail(s))

(* round(num / den, 2), in hundredths: the nearest hundredth, and the even
   one of two that are equally near. *)
round(num, den) ==
    LET q == (num * 100) \div den
        r == (num * 100) % den
    IN IF 2 * r > den \/ (2 * r = den /\ q % 2 = 1) THEN q + 1 ELSE q

(* get_job_statistics: success_rate_percent and average_duration_seconds are
   in hundredths (7000 is 70.0 percent, 429 is 4.29 seconds). *)
get_job_statistics(rows, execution_rows, job_id, now) ==
    LET fetched == get_by_id(rows, job_id, now)
        found == fetched[1]
        all == get_by_job_id(execution_rows, job_id)
        total_executions == Len(all)
        successful_executions ==
            Len(SelectSeq(all, LAMBDA e : e.status = SUCCESS))
        failed_executions ==
            Len(SelectSeq(all, LAMBDA e : e.status = FAILED))
        with_duration ==
            SelectSeq(all, LAMBDA e : is_successful(e) /\ duration_seconds(e) # Null)
        successful_durations ==
            [i \in DOMAIN with_duration |-> duration_seconds(with_duration[i])]
    IN IF fetched = None
       THEN [error |-> NotFound, statistics |-> None]
       ELSE [error |-> NoError,
             statistics |->
                 [job_name |-> found.name,
                  job_status |-> found.status,
                  total_executions |-> total_executions,
                  successful_executions |-> successful_executions,
                  failed_executions |-> failed_executions,
                  success_rate_percent |->
                      IF total_executions > 0
                      THEN round(successful_executions * 100, total_executions)
                      ELSE 0,
                  average_duration_seconds |->
                      IF successful_durations # <<>>
                      THEN round(sum(successful_durations), Len(successful_durations))
                      ELSE 0,
                  last_execution |-> found.last_run,
                  next_execution |-> found.next_run]]

(* The executions a history is made of: of job 1, one that succeeded after
   30 seconds, one that succeeded at once, one marked successful without
   having been started, one that failed and one that timed out; and one of
   job 2 that succeeded. *)
Recorded ==
    LET pending(id) == JobExecution(id, uuid4(<<"Job", id>>), 0)
    IN <<complete_success(start(pending(1), 0), 0, "", 1),
         complete_success(start(pending(1), 0), 0, "", 0),
         complete_success(pending(1), 0, "", 0),
         complete_failure(start(pending(1), 0), 1, "", "failed", 1),
         timeout(start(pending(1), 0), "timed out", 1),
         complete_success(start(pending(2), 0), 0, "", 1)>>

(* The history with n[k] executions of the k-th kind. *)
RECURSIVE History(_, _)
History(n, k) ==
    IF k = 0
    THEN <<>>
    ELSE History(n, k - 1) \o [i \in 1..n[k] |-> Recorded[k]]

InitStats ==
    /\ clock = 0
    /\ job = Job(1, ACTIVE, EveryMinute, 3, 0)
    /\ execution = JobExecution(1, uuid4(<<"Job", 1>>), 0)
    /\ \E status \in {ACTIVE, DELETED} :
           jobs = <<[Job(1, status, EveryMinute, 3, 0) EXCEPT !.name = "a"]>>
    /\ \E slow, fast, unstarted \in 0..MaxSuccessful, failed \in 0..MaxFailed,
          timed_out, other \in 0..1 :
           /\ slow + fast + unstarted <= MaxSuccessful
           /\ executions =
                  History(<<slow, fast, unstarted, failed, timed_out, other>>, 6)
    /\ pc = "tick"
    /\ handoff = <<>>
    /\ db = DatabaseConnection
    /\ call = [op |-> "initialize", arg |-> Null]
    /\ result = [error |-> NoError, statistics |-> None]

GetJobStatistics ==
    \E job_id \in 1..NumJobs :
        /\ call' = [op |-> "get_job_statistics", arg |-> job_id]
        /\ result' = get_job_statistics(jobs, executions, job_id, clock)
        /\ UNCHANGED <<clock, job, execution, jobs, executions, pc, handoff, db>>

NextStats == GetJobStatistics

SpecStats == InitStats /\ [][NextStats]_vars

(* C29 as stated: the counts are those of the job's executions, the success
   rate is exactly successful / total * 100 (0 without executions) and the
   average duration is exactly the mean over the successful executions
   (0 when none has a duration). *)
C29_StatisticsExact ==
    (call.op = "get_job_statistics" /\ result.error = NoError) =>
        LET mine == {i \in DOMAIN executions : executions[i].job_id = call.arg}
            ok == {i \in mine : executions[i].status = SUCCESS}
            timed == SelectSeq(executions,
                               LAMBDA e : /\ e.job_id = call.arg
                                          /\ e.status = SUCCESS
                                          /\ e.started_at # Null
                                          /\ e.finished_at # Null)
            seconds == sum([i \in DOMAIN timed |->
                               (timed[i].finished_at - timed[i].started_at)
                                   * scheduler_interval])
            s == result.statistics
        IN /\ s.total_executions = Cardinality(mine)
           /\ s.successful_executions = Cardinality(ok)
           /\ s.failed_executions =
                  Cardinality({i \in mine : executions[i].status = FAILED})
           /\ s.success_rate_percent * Cardinality(mine) = Cardinality(ok) * 10000
           /\ s.average_duration_seconds * Len(timed) = seconds * 100

(* C29 (amended): the counts are those of the job's executions; the success
   rate is successful / total * 100 rounded to two decimals (0 without
   executions); the average duration is the mean over the successful
   executions that have a start and a finish time, rounded to two decimals
   (0 when there is none). *)
C29_StatisticsRounded ==
    (call.op = "get_job_statistics" /\ result.error = NoError) =>
        LET mine == {i \in DOMAIN executions : executions[i].job_id = call.arg}
            ok == {i \in mine : executions[i].status = SUCCESS}
            timed == SelectSeq(executions,
                               LAMBDA e : /\ e.job_id = call.arg
                                          /\ e.status = SUCCESS
                                          /\ e.started_at # Null
                                          /\ e.finished_at # Null)
            seconds == sum([i \in DOMAIN timed |->
                               (timed[i].finished_at - timed[i].started_at)
                                   * scheduler_interval])
            s == result.statistics
            rate_error == s.success_rate_percent * Cardinality(mine)
                              - Cardinality(ok) * 10000
            average_error == s.average_duration_seconds * Len(timed)
                                 - seconds * 100
        IN /\ s.total_executions = Cardinality(mine)
           /\ s.successful_executions = Cardinality(ok)
           /\ s.failed_executions =
                  Cardinality({i \in mine : executions[i].status = FAILED})
           /\ mine = {} => s.success_rate_percent = 0
           /\ 2 * rate_error <= Cardinality(mine)
           /\ 2 * rate_error >= 0 - Cardinality(mine)
           /\ timed = <<>> => s.average_duration_seconds = 0
           /\ 2 * average_error <= Len(timed)
           /\ 2 * average_error >= 0 - Len(timed)

(* Seven successes, one of which took 30 seconds, and three failures: 70
   percent, and 4.29 seconds on average. *)
C29_Witness ==
    /\ call.op = "get_job_statistics"
    /\ result.error = NoError
    /\ result.statistics.total_executions = 10
    /\ result.statistics.successful_executions = 7
    /\ result.statistics.failed_executions = 3
    /\ result.statistics.success_rate_percent = 7000
    /\ result.statistics.average_duration_seconds = 429

----------------------------------------------------------------------------
(* updated_at *)

(* C31 as stated: a Job operation that changes a field of the job other than
   updated_at also sets updated_at, to the time of the call (to the execution
   time for mark_as_executed). *)
C31_MutationUpdatesUpdatedAt ==
    [][(/\ call'.op \in {"pause", "resume", "activate", "deactivate",
                         "soft_delete", "mark_as_executed", "calculate_next_run"}
        /\ [job' EXCEPT !.updated_at = job.updated_at] # job) =>
           job'.updated_at =
               (IF call'.op = "mark_as_executed" THEN call'.arg ELSE clock)]_vars

----------------------------------------------------------------------------
(* The JobExecution entity under all of its operations *)

ExecSetMetadata ==
    \E key \in {"host", "pid"} :
        /\ execution' = set_metadata(execution, key, "x")
        /\ call' = [op |-> "set_metadata", arg |-> key]
        /\ result' = Null
        /\ ExecFrame

NextOps ==
    \/ ExecStart
    \/ ExecCompleteSuccess
    \/ ExecCompleteFailure
    \/ ExecTimeout
    \/ ExecCancel
    \/ ExecPrepareRetry
    \/ ExecSetMetadata

SpecOps == InitExec /\ [][NextOps]_vars

(* C32: the retry_count of a JobExecution is 0 after construction, and no
   operation (start, complete_success, complete_failure, timeout, cancel,
   prepare_retry, set_metadata) lowers it. *)
C32_RetryCountMonotonic ==
    /\ execution.retry_count = 0
    /\ [][execution'.retry_count >= execution.retry_count]_vars

(* Two retries behind it, the execution has succeeded and been annotated. *)
C32_Witness ==
    /\ execution.retry_count = 2
    /\ execution.status = SUCCESS
    /\ call.op = "set_metadata"
    /\ execution.execution_metadata.items = dict_set(<<>>, call.arg, "x")

----------------------------------------------------------------------------
(* update_job on one stored job: two callers, one field each *)

(* The table holds one job, created at time 0 and since then left active,
   paused or deactivated; the calls are made at once or three ticks later. *)
InitEdit ==
    /\ clock \in {0, 3}
    /\ job = Job(1, ACTIVE, EveryMinute, 3, 0)
    /\ execution = JobExecution(1, uuid4(<<"Job", 1>>), 0)
    /\ \E stored \in {Job(1, ACTIVE, EveryMinute, 3, 0),
                      pause(Job(1, ACTIVE, EveryMinute, 3, 0), 0),
                      deactivate(Job(1, ACTIVE, EveryMinute, 3, 0), 0)} :
           jobs = <<[stored EXCEPT !.name = "a"]>>
    /\ executions = <<>>
    /\ pc = [c \in {"e1", "e2"} |-> Idle]
    /\ handoff = <<>>
    /\ db = DatabaseConnection
    /\ call = [op |-> "initialize", arg |-> Null]
    /\ result = Pending(None, None)

NextEdit ==
    \/ \E c \in DOMAIN pc : UpdateJob(c)
    \/ \E c \in DOMAIN pc : UpdateJobPersist(c)

SpecEdit == InitEdit /\ [][NextEdit]_vars

(* C33 as stated: the job an update_job call with a new cron expression or a
   new command persists has a valid cron expression and the next_run computed
   from it at the time of the call. *)
C33_CronOrCommandRecomputes ==
    [][(/\ call'.op = "update_job"
        /\ call'.step = "update"
        /\ \/ call'.arg.args.cron_expression # None
           \/ call'.arg.args.command # None) =>
           LET stored == jobs'[call'.arg.job_id]
           IN /\ validate_cron_expression(stored)
              /\ stored.next_run =
                     croniter_get_next(stored.cron_expression, stored.updated_at)]_vars

(* C33 (amended): the job an update_job call with a new cron expression
   persists has that expression, which is valid, and the next_run computed
   from it at the time of the call; a call with a new command and no cron
   expression persists the cron expression and the next_run of the job it
   fetched. *)
C33_CronRecomputes ==
    [][(call'.op = "update_job" /\ call'.step = "update") =>
           LET stored == jobs'[call'.arg.job_id]
               args == call'.arg.args
           IN /\ args.cron_expression # None =>
                     /\ stored.cron_expression = args.cron_expression[1]
                     /\ validate_cron_expression(stored)
                     /\ stored.next_run =
                            croniter_get_next(stored.cron_expression, stored.updated_at)
              /\ (args.cron_expression = None /\ args.command # None) =>
                     /\ stored.command = args.command[1]
                     /\ stored.cron_expression = result'.fetched[1].cron_expression
                     /\ stored.next_run = result'.fetched[1].next_run]_vars

(* A new expression was persisted with its own next trigger, and another call
   has persisted a new command since, with the next_run it had fetched. *)
C33_Witness ==
    /\ call.op = "update_job"
    /\ call.step = "update"
    /\ call.arg.args.command = Some("new cmd")
    /\ jobs[1].command = "new cmd"
    /\ jobs[1].cron_expression = EveryOtherMinute
    /\ jobs[1].next_run = 4
    /\ jobs[1].updated_at = 3

(* C35 as stated: of two update_job calls on one job that change different
   fields, the one whose write comes second keeps what the first wrote: its
   write changes neither the description nor the max_retries it was not
   called with. *)
C35_BothUpdatesTakeEffect ==
    [][(call'.op = "update_job" /\ call'.step = "update") =>
           LET before == jobs[call'.arg.job_id]
               after == jobs'[call'.arg.job_id]
           IN /\ call'.arg.args.description = None =>
                     after.description = before.description
              /\ call'.arg.args.max_retries = None =>
                     after.max_retries = before.max_retries]_vars

(* C36 as stated: the entity get_by_id rebuilds from a row with status
   Inactive (or Deleted) and next_run null has next_run null. *)
C36_LoadKeepsNullNextRun ==
    [][(/\ call'.op = "update_job"
        /\ call'.step = "get_by_id"
        /\ call'.arg.job_id \in DOMAIN jobs
        /\ jobs[call'.arg.job_id].status \in {INACTIVE, DELETED}
        /\ jobs[call'.arg.job_id].next_run = Null
        /\ result'.fetched # None) =>
           result'.fetched[1].next_run = Null]_vars

----------------------------------------------------------------------------
(* Terminal statuses of a JobExecution *)

(* C34 as stated: an execution enters Success, Failed, Timeout or Cancelled
   from Running only, and a completed execution has started_at and finished_at
   set, so that its duration_seconds is defined. *)
C34_TerminalOnlyFromRunning ==
    [][(is_completed(execution') /\ execution'.status # execution.status) =>
           /\ execution.status = RUNNING
           /\ execution'.started_at # Null
           /\ execution'.finished_at # Null
           /\ duration_seconds(execution') # Null]_vars

----------------------------------------------------------------------------
(* What the lifecycle operations of a Job leave alone *)

(* C37: pause, resume, activate, deactivate, soft_delete and mark_as_executed
   change nothing of a job but its status, next_run, last_run and updated_at:
   id, uuid, name, cron_expression, command, description, timeout_seconds,
   max_retries, retry_delay_seconds, environment_variables, tags and
   created_at are as before. *)
C37_LifecycleFrame ==
    [][call'.op \in {"pause", "resume", "activate", "deactivate", "soft_delete",
                     "mark_as_executed"} =>
           [job' EXCEPT !.status = job.status,
                        !.next_run = job.next_run,
                        !.last_run = job.last_run,
                        !.updated_at = job.updated_at] = job]_vars

(* A job created at 0 was deleted at 3: its status, next_run and updated_at
   are new, its name and its created_at are not. *)
C37_Witness ==
    /\ call.op = "soft_delete"
    /\ clock = 3
    /\ job.status = DELETED
    /\ job.next_run = Null
    /\ job.updated_at = 3
    /\ job.created_at = 0
    /\ job.name = "job"
    /\ job.uuid = uuid4(<<"Job", 1>>)

----------------------------------------------------------------------------
(* DatabaseConnection *)

(* What the database does during a call: whether MySQLConnectionPool(...) can
   be created, whether the pool hands out a connection, and whether the test
   query is answered. *)
Servers == [pool_ok : BOOLEAN, connect_ok : BOOLEAN, query_ok : BOOLEAN]

(* get_connection up to its yield: the error raised, NoError when a
   connection is yielded. *)
get_connection(d, server) ==
    IF ~d.is_initialized \/ d.pool = None
    THEN "Database connection pool not initialized"
    ELSE IF ~server.connect_ok
    THEN "Database operation failed"
    ELSE NoError

(* _test_connection: any exception of get_connection or of the query is
   raised again as the failure of the test. *)
test_connection(d, server) ==
    IF get_connection(d, server) # NoError \/ ~server.query_ok
    THEN "Database connection test failed"
    ELSE NoError

(* initialize: the manager after the call and the error raised.  The pool is
   assigned before the test, is_initialized after it. *)
initialize(d, server) ==
    IF d.is_initialized
    THEN [db |-> d, error |-> NoError]
    ELSE IF ~server.pool_ok
    THEN [db |-> d, error |-> "Database initialization failed"]
    ELSE LET created == [d EXCEPT !.pool = Some("job_scheduler_pool")]
             tested == test_connection(created, server)
         IN IF tested # NoError
            THEN [db |-> created, error |-> tested]
            ELSE [db |-> [created EXCEPT !.is_initialized = TRUE], error |-> NoError]

close(d) ==
    IF d.pool # None
    THEN [d EXCEPT !.pool = None, !.is_initialized = FALSE]
    ELSE d

InitDb ==
    /\ clock = 0
    /\ job = Job(1, ACTIVE, EveryMinute, 3, 0)
    /\ execution = JobExecution(1, uuid4(<<"Job", 1>>), 0)
    /\ jobs = <<>>
    /\ executions = <<>>
    /\ pc = "tick"
    /\ handoff = <<>>
    /\ db = DatabaseConnection
    /\ call = [op |-> "DatabaseConnection", arg |-> Null]
    /\ result = NoError

(* The calls are made at any time; the pool is asked for by one caller after
   the other. *)
DbFrame == UNCHANGED <<clock, job, execution, jobs, executions, pc, handoff>>

DbInitialize ==
    \E server \in Servers :
        /\ db' = initialize(db, server).db
        /\ call' = [op |-> "initialize", arg |-> server]
        /\ result' = initialize(db, server).error
        /\ DbFrame

DbGetConnection ==
    \E server \in Servers :
        /\ call' = [op |-> "get_connection", arg |-> server]
        /\ result' = get_connection(db, server)
        /\ UNCHANGED db
        /\ DbFrame

DbClose ==
    /\ db' = close(db)
    /\ call' = [op |-> "close", arg |-> Null]
    /\ result' = NoError
    /\ DbFrame

NextDb ==
    \/ AdvanceClock
    \/ DbInitialize
    \/ DbGetConnection
    \/ DbClose

SpecDb == InitDb /\ [][NextDb]_vars

(* C39 as stated: initialize() on a fresh connection manager, with a pool
   that can be created and a database that answers the test query, returns
   normally and leaves is_initialized true. *)
C39_InitializeSucceeds ==
    [][(/\ call'.op = "initialize"
        /\ db = DatabaseConnection
        /\ call'.arg.pool_ok
        /\ call'.arg.connect_ok
        /\ call'.arg.query_ok) =>
           /\ result' = NoError
           /\ db'.is_initialized]_vars

====
